---- MODULE Spec2Model ----
(***************************************************************************)
(* A model of the Facebook conversation folder viewer: the ingestion       *)
(* pipeline of lib/messageUtils (validateFolder, processMessageFiles,      *)
(* fixEncoding, readJsonInChunks, loadDemoChat), the FolderUpload          *)
(* component, the session state of the home route, the SearchBar and       *)
(* DateFilters components and the previews of MessageBubble.               *)
(*                                                                         *)
(* Strings the code inspects are modelled by their structure:              *)
(*   - a text field is the sequence of its UTF-16 code units;              *)
(*   - a file name is a record [base, pre, suf]: base "message" with       *)
(*     pre = 0 is "message_<suf>.json", with pre > 0 it is                 *)
(*     "<pre>_message_<suf>.json" (a digit run before the suffix), and     *)
(*     base "other" is a name without digits that does not end in          *)
(*     message_<digits>.json (a media file);                               *)
(*   - webkitRelativePath is kept split at "/": dirs are the directory     *)
(*     segments, the last segment is the file name; rel = FALSE is the     *)
(*     empty path "".                                                      *)
(***************************************************************************)
EXTENDS Integers, Sequences, FiniteSets, TLC

\* Bounds of the explored inputs.
MaxFiles == 2
MaxMsgs == 2
MaxTs == 2
MaxSelected == 3
MaxLoads == 2
MaxText == 3
MaxBytes == 4
MaxChunk == 3
MaxUrls == 4

VARIABLES
    \* processMessageFiles
    files,            \* the File[] it is called with
    sortedFiles,      \* sortedFiles
    i,                \* the loop index (0-based)
    allMessages,      \* allMessages
    pmf,              \* "idle", "reading" (awaiting readJsonInChunks), "resolved"
    result,           \* the array its promise resolved with
    progress,         \* the last onProgress report, the route's progress state
    \* validateFolder called on its own
    validation,       \* what the call returned or threw
    \* loadDemoChat
    ldc,              \* its promise: [state, reason], state "none", "fetching",
                      \* "parsing", "fulfilled", "rejected"
    \* HomeComponent state
    chatFolder, messages, filteredMessages, isProcessing, mainUser,
    participants, folderStructure,
    load,             \* the handler that ran last: "none", "folder", "demo"
    toasts,           \* the toasts, one per toast id: [id, kind, text]
    \* FolderUpload state
    error,
    \* fixEncoding called on its own
    original,         \* the text as it was written: its code points
    argument,         \* the str the call is given (null before the call)
    fixed,            \* what the call returned
    \* readJsonInChunks called on its own
    fileBytes,        \* the bytes of the file
    chunkSize,        \* chunkSize
    offset,           \* offset
    readText,         \* text (its code units)
    slices,           \* the byte ranges sliced so far: <<from, to>>, to excluded
    rjc,              \* its promise: [state, value], state "idle", "reading"
                      \* (awaiting chunk.text()), "fulfilled", "rejected"
    \* one MessageBubble
    bubble,           \* "unmounted" (not mounted yet), "mounted", "gone"
    bubbleMessage,    \* the message prop: [photos, videos, gifs], uris each
    bubbleFolder,     \* the folderStructure prop: null, or the file names of
                      \* its photos, videos and gifs
    loadedImages,     \* loadedImages
    blobUrls,         \* blobUrls: uri -> URL, a URL being [id, uri]
    objectUrls,       \* the URLs URL.createObjectURL made so far (a count)
    outstanding,      \* the URLs made and not revoked
    \* SearchBar state
    searchTerm,       \* searchTerm (its code units)
    startDate,        \* startDate: 0 is "", d > 0 the day d as "YYYY-MM-DD"
    endDate,          \* endDate, likewise
    showResults,      \* showResults
    \* DateFilters state
    range,            \* range: undefined (null), or [from, to], each a day
                      \* (the Date of its local midnight) or 0 for undefined
    \* cleanAttachmentPath called on its own
    attachmentUri,    \* the uri it is given (its code units)
    cleaned,          \* what the call returned (null before the call)
    \* the selection of HomeComponent and VirtualMessageList
    selectedMessageId, \* selectedMessageId
    timers,           \* the pending timeouts of handleMessageSelect: the
                      \* seconds each has left, in the order they were set
    centred           \* the id of the message of the last
                      \* scrollToIndex(index, {align: "center"}) call

ingestVars == <<files, sortedFiles, i, allMessages, pmf, result, progress>>
sessionVars == <<chatFolder, messages, filteredMessages, isProcessing, mainUser,
                 participants, folderStructure, load, toasts, error, ldc>>
encodingVars == <<original, argument, fixed>>
readVars == <<fileBytes, chunkSize, offset, readText, slices, rjc>>
bubbleVars == <<bubble, bubbleMessage, bubbleFolder, loadedImages, blobUrls,
                objectUrls, outstanding>>
filterVars == <<searchTerm, startDate, endDate, showResults, range>>
pathVars == <<attachmentUri, cleaned>>
selectionVars == <<selectedMessageId, timers, centred>>
restVars == <<encodingVars, readVars, bubbleVars, filterVars, pathVars,
              selectionVars>>
vars == <<ingestVars, validation, sessionVars, restVars>>

\* null, and a value of a nullable state.
Null == [null |-> TRUE]
Some(v) == [null |-> FALSE, value |-> v]

-----------------------------------------------------------------------------
(* Sequences *)

SeqsUpTo(S, n) == UNION {[1..k -> S] : k \in 0..n}

RECURSIVE Flatten(_)
Flatten(ss) == IF ss = <<>> THEN <<>> ELSE Head(ss) \o Flatten(Tail(ss))

InsertAt(s, p, x) == SubSeq(s, 1, p) \o <<x>> \o SubSeq(s, p + 1, Len(s))

\* All orderings of the elements of s.
Orderings(s) ==
    {[k \in 1..Len(s) |-> s[f[k]]] :
        f \in {g \in [1..Len(s) -> 1..Len(s)] :
                 \A a, b \in 1..Len(s) : a # b => g[a] # g[b]}}

-----------------------------------------------------------------------------
(* fixEncoding *)

\* TextDecoder("utf-8", {fatal: true}).decode(bytes): the UTF-16 code units,
\* or ok = FALSE where decode throws.
DecodeFail == [ok |-> FALSE, units |-> <<>>]

\* A code point as UTF-16 code units.
CodeUnits(cp) ==
    IF cp < 65536 THEN <<cp>>
    ELSE <<55296 + ((cp - 65536) \div 1024), 56320 + ((cp - 65536) % 1024)>>

RECURSIVE Utf8Decode(_)
Utf8Decode(b) ==
    IF Len(b) = 0 THEN [ok |-> TRUE, units |-> <<>>]
    ELSE
      LET b1 == b[1]
          need == IF b1 <= 127 THEN 0
                  ELSE IF b1 >= 194 /\ b1 <= 223 THEN 1
                  ELSE IF b1 >= 224 /\ b1 <= 239 THEN 2
                  ELSE IF b1 >= 240 /\ b1 <= 244 THEN 3
                  ELSE -1
          lo == IF b1 = 224 THEN 160 ELSE IF b1 = 240 THEN 144 ELSE 128
          hi == IF b1 = 237 THEN 159 ELSE IF b1 = 244 THEN 143 ELSE 191
      IN
        IF need = -1 \/ Len(b) < need + 1 THEN DecodeFail
        ELSE IF need >= 1 /\ ~(b[2] >= lo /\ b[2] <= hi) THEN DecodeFail
        ELSE IF \E k \in 3..(need + 1) : ~(b[k] >= 128 /\ b[k] <= 191) THEN DecodeFail
        ELSE
          LET cp == CASE need = 0 -> b1
                      [] need = 1 -> (b1 - 192) * 64 + (b[2] - 128)
                      [] need = 2 -> (b1 - 224) * 4096 + (b[2] - 128) * 64 + (b[3] - 128)
                      [] need = 3 -> (b1 - 240) * 262144 + (b[2] - 128) * 4096
                                      + (b[3] - 128) * 64 + (b[4] - 128)
              rest == Utf8Decode(SubSeq(b, need + 2, Len(b)))
          IN IF rest.ok THEN [ok |-> TRUE, units |-> CodeUnits(cp) \o rest.units]
             ELSE DecodeFail

\* fixEncoding with its loop starting at 1: bytes[0] keeps the 0 the
\* Uint8Array was created with.
FixEncodingSkipsFirst(input) ==
    LET bytes == [k \in 1..Len(input) |-> IF k = 1 THEN 0 ELSE input[k] % 256]
        d == Utf8Decode(bytes)
    IN IF ~d.ok THEN input
       ELSE IF Len(d.units) > 0 /\ d.units[1] = 65279 THEN Tail(d.units)
       ELSE d.units

\* fixEncoding(str): each code unit stored into a Uint8Array (kept modulo 256),
\* the bytes decoded as strict UTF-8 (a leading byte order mark is dropped by
\* the decoder); the input itself when decoding throws.
FixEncoding(str) ==
    LET bytes == [k \in 1..Len(str) |-> str[k] % 256]
        d == Utf8Decode(bytes)
    IN IF ~d.ok THEN str
       ELSE IF Len(d.units) > 0 /\ d.units[1] = 65279 THEN Tail(d.units)
       ELSE d.units

-----------------------------------------------------------------------------
(* Files and raw messages *)

Timestamps == 1..MaxTs

\* A raw message of a message file is a record; timestamp_ms may be missing
\* from the JSON.
HasTimestamp(m) == "timestamp_ms" \in DOMAIN m

OtherName == [base |-> "other", pre |-> 0, suf |-> 0]

\* What reading and parsing the file gives: "throws" (a chunk read rejects or
\* JSON.parse throws), "no_messages" (a payload without a messages array), or
\* "messages" and the array.
Throws == [kind |-> "throws", messages |-> <<>>]
NoMessages == [kind |-> "no_messages", messages |-> <<>>]
Parsed(ms) == [kind |-> "messages", messages |-> ms]

\* /message_\d+\.json$/.test(f.name)
IsMessageFile(f) == f.name.base = "message"

\* Number.parseInt(name.match(/\d+/)?.[0] || "0", 10): the first digit run.
FirstNumber(name) ==
    IF name.base # "message" THEN 0
    ELSE IF name.pre # 0 THEN name.pre
    ELSE name.suf

-----------------------------------------------------------------------------
(* validateFolder, buildFolderStructure, extractParticipants *)

MediaFolders == {"audio", "files", "gifs", "photos", "videos"}

\* pathParts[pathParts.length - 2] of f.webkitRelativePath.split("/"): the
\* last directory segment, undefined when the path has a single segment.
ParentDir(f) ==
    IF f.rel /\ Len(f.dirs) >= 1
    THEN [defined |-> TRUE, name |-> f.dirs[Len(f.dirs)]]
    ELSE [defined |-> FALSE, name |-> ""]

HasMediaParent(f) == ParentDir(f).defined /\ ParentDir(f).name \in MediaFolders

ErrNoMessageFiles ==
    "No message_*.json files found. Please select a valid Facebook Messenger export folder."
ErrNoMediaFolders ==
    "No media folders (photos, videos, audio, gifs, files) found. Please select the complete chat folder."
ErrNoChatFolder == "Could not determine chat folder name from file structure."

Threw(msg) == [status |-> "threw", message |-> msg]

\* ValidateFolder with its last two checks in the other order: the chat
\* folder name is looked for before the media folders.
ValidateFolderNameFirst(fs) ==
    LET messageFiles == SelectSeq(fs, IsMessageFile)
    IN  IF Len(messageFiles) = 0 THEN Threw(ErrNoMessageFiles)
        ELSE IF ~ParentDir(messageFiles[1]).defined
                \/ ParentDir(messageFiles[1]).name = ""
        THEN Threw(ErrNoChatFolder)
        ELSE IF ~\E k \in 1..Len(fs) : HasMediaParent(fs[k])
        THEN Threw(ErrNoMediaFolders)
        ELSE [status |-> "returned",
              chatFolder |-> ParentDir(messageFiles[1]).name,
              validFiles |-> fs]

\* ValidateFolder taking the chat folder name from the last message file.
ValidateFolderLastFile(fs) ==
    LET messageFiles == SelectSeq(fs, IsMessageFile)
        last == messageFiles[Len(messageFiles)]
    IN  IF Len(messageFiles) = 0 THEN Threw(ErrNoMessageFiles)
        ELSE IF ~\E k \in 1..Len(fs) : HasMediaParent(fs[k])
        THEN Threw(ErrNoMediaFolders)
        ELSE IF ~ParentDir(last).defined \/ ParentDir(last).name = ""
        THEN Threw(ErrNoChatFolder)
        ELSE [status |-> "returned",
              chatFolder |-> ParentDir(last).name,
              validFiles |-> fs]

ValidateFolder(fs) ==
    LET messageFiles == SelectSeq(fs, IsMessageFile)
    IN  IF Len(messageFiles) = 0 THEN Threw(ErrNoMessageFiles)
        ELSE IF ~\E k \in 1..Len(fs) : HasMediaParent(fs[k])
        THEN Threw(ErrNoMediaFolders)
        ELSE IF ~ParentDir(messageFiles[1]).defined
                \/ ParentDir(messageFiles[1]).name = ""
        THEN Threw(ErrNoChatFolder)
        ELSE [status |-> "returned",
              chatFolder |-> ParentDir(messageFiles[1]).name,
              validFiles |-> fs]

\* structure[folderName][fileName] = file: per media folder the files lying
\* directly in it, a later file replacing an earlier one of the same name.
BuildFolderStructure(fs) ==
    [c \in MediaFolders |->
        {fs[k] : k \in {n \in 1..Len(fs) :
                          /\ ParentDir(fs[n]).defined
                          /\ ParentDir(fs[n]).name = c
                          /\ ~\E later \in (n + 1)..Len(fs) :
                                /\ ParentDir(fs[later]).defined
                                /\ ParentDir(fs[later]).name = c
                                /\ fs[later].name = fs[n].name}}]

\* The default sort order of strings: by UTF-16 code units.
CodeUnitLess(a, b) ==
    \E k \in 1..Len(b) :
        /\ k <= Len(a) + 1
        /\ \A j \in 1..(k - 1) : a[j] = b[j]
        /\ (k = Len(a) + 1 \/ a[k] < b[k])

RECURSIVE SortNames(_)
SortNames(S) ==
    IF S = {} THEN <<>>
    ELSE LET least == CHOOSE x \in S : \A y \in S : x = y \/ CodeUnitLess(x, y)
         IN  <<least>> \o SortNames(S \ {least})

ExtractParticipants(ms) == SortNames({ms[k].sender_name : k \in 1..Len(ms)})

-----------------------------------------------------------------------------
(* processMessageFiles *)

\* files.filter(...).sort((a, b) => numA - numB): Array.prototype.sort is
\* stable, an element goes after the elements whose number is not larger.
InsertFile(sorted, f) ==
    InsertAt(sorted,
             Cardinality({k \in 1..Len(sorted) :
                            FirstNumber(sorted[k].name) <= FirstNumber(f.name)}),
             f)

RECURSIVE SortInto(_, _)
SortInto(sorted, rest) ==
    IF rest = <<>> THEN sorted
    ELSE SortInto(InsertFile(sorted, Head(rest)), Tail(rest))

SortMessageFiles(fs) == SortInto(<<>>, SelectSeq(fs, IsMessageFile))

\* The enriched message of data.messages[index] (index 0-based); the display
\* strings formattedDate and formattedTime are left out.
Enrich(msg, name, index) ==
    IF HasTimestamp(msg)
    THEN [id |-> <<name, index>>,
          sender_name |-> FixEncoding(msg.sender_name),
          timestamp_ms |-> msg.timestamp_ms]
    ELSE [id |-> <<name, index>>,
          sender_name |-> FixEncoding(msg.sender_name)]

EnrichFile(f) ==
    [k \in 1..Len(f.content.messages) |-> Enrich(f.content.messages[k], f.name, k - 1)]

\* allMessages.sort((a, b) => a.timestamp_ms - b.timestamp_ms).  With every
\* timestamp a number the comparator is consistent and the stable sort has
\* one result.  A missing timestamp makes the comparator return NaN: it is
\* not a consistent comparator and the order is implementation-defined, any
\* ordering of the elements.
InsertMessage(sorted, m) ==
    InsertAt(sorted,
             Cardinality({k \in 1..Len(sorted) :
                            sorted[k].timestamp_ms <= m.timestamp_ms}),
             m)

RECURSIVE SortMessagesInto(_, _)
SortMessagesInto(sorted, rest) ==
    IF rest = <<>> THEN sorted
    ELSE SortMessagesInto(InsertMessage(sorted, Head(rest)), Tail(rest))

SortOutcomes(ms) ==
    IF \A k \in 1..Len(ms) : HasTimestamp(ms[k])
    THEN {SortMessagesInto(<<>>, ms)}
    ELSE Orderings(ms)

-----------------------------------------------------------------------------
(* SearchBar and DateFilters: the filters *)

\* The length of a day both filters add to a midnight (86400000 ms).
DayMs == 86400000

\* filteredMessages.slice(0, 50): the number of results SearchBar lists.
TopResults == 50

\* The days a date can be picked from: three consecutive days of a time zone
\* that sets its clocks back one hour during the second one (Europe/Berlin,
\* 26 to 28 October 2024), which therefore lasts 25 hours.
Days == 1..3

\* getTime() of the Date the Calendar hands to onSelect for day d: its local
\* midnight, counted from the local midnight of the first day.
LocalMidnight(d) ==
    IF d <= 2 THEN (d - 1) * DayMs ELSE (d - 1) * DayMs + DayMs \div 24

\* new Date("YYYY-MM-DD").getTime() for day d: a date-only string is midnight
\* UTC, two hours after the local midnight of the first day (UTC+2).
UtcMidnight(d) == (d - 1) * DayMs + 2 * (DayMs \div 24)

HasContent(msg) == "content" \in DOMAIN msg

\* String.prototype.trim: the white space of the explored texts.
WhiteSpace == {9, 10, 13, 32, 160}

RECURSIVE TrimStart(_)
TrimStart(t) ==
    IF t # <<>> /\ Head(t) \in WhiteSpace THEN TrimStart(Tail(t)) ELSE t

RECURSIVE TrimEnd(_)
TrimEnd(t) ==
    IF t # <<>> /\ t[Len(t)] \in WhiteSpace
    THEN TrimEnd(SubSeq(t, 1, Len(t) - 1))
    ELSE t

Trim(t) == TrimEnd(TrimStart(t))

\* The code units below 256 that toLowerCase maps, each to the unit 32 above.
UpperCase == (65..90) \cup (192..214) \cup (216..222)

\* String.prototype.toLowerCase on code units below 256.
ToLowerCase(t) ==
    [k \in 1..Len(t) |-> IF t[k] \in UpperCase THEN t[k] + 32 ELSE t[k]]

\* String.prototype.includes.
Includes(t, term) ==
    \E o \in 0..(Len(t) - Len(term)) : SubSeq(t, o + 1, o + Len(term)) = term

\* The text filter skipping the sender name.
TextMatchesContentOnly(msg, term) ==
    HasContent(msg) /\ Includes(ToLowerCase(msg.content), term)

\* The predicate of the text filter: msg.content?.toLowerCase().includes(term)
\* || msg.sender_name.toLowerCase().includes(term).
TextMatches(msg, term) ==
    \/ HasContent(msg) /\ Includes(ToLowerCase(msg.content), term)
    \/ Includes(ToLowerCase(msg.sender_name), term)

\* The filteredMessages memo of SearchBar for the given state.
SearchFiltered(ms, query, start, end) ==
    LET byTerm == IF Trim(query) # <<>>
                  THEN SelectSeq(ms, LAMBDA m : TextMatches(m, ToLowerCase(query)))
                  ELSE ms
        byStart == IF start # 0
                   THEN SelectSeq(byTerm, LAMBDA m :
                            /\ HasTimestamp(m)
                            /\ m.timestamp_ms >= UtcMidnight(start))
                   ELSE byTerm
    IN IF end # 0
       THEN SelectSeq(byStart, LAMBDA m :
                /\ HasTimestamp(m)
                /\ m.timestamp_ms <= UtcMidnight(end) + DayMs - 1)
       ELSE byStart

\* The memo without the slice.
SearchResultsUnsliced(ms) ==
    IF Trim(searchTerm) = <<>> THEN <<>>
    ELSE SearchFiltered(ms, searchTerm, startDate, endDate)

\* The searchResults memo of SearchBar.
SearchResults(ms) ==
    IF Trim(searchTerm) = <<>> THEN <<>>
    ELSE LET filtered == SearchFiltered(ms, searchTerm, startDate, endDate)
         IN SubSeq(filtered, 1,
                   IF Len(filtered) < TopResults THEN Len(filtered)
                   ELSE TopResults)

\* The filteredMessages memo of DateFilters for the range r.
DateFiltered(ms, r) ==
    LET byFrom == IF ~r.null /\ r.value.from # 0
                  THEN SelectSeq(ms, LAMBDA m :
                           /\ HasTimestamp(m)
                           /\ m.timestamp_ms >= LocalMidnight(r.value.from))
                  ELSE ms
    IN IF ~r.null /\ r.value.to # 0
       THEN SelectSeq(byFrom, LAMBDA m :
                /\ HasTimestamp(m)
                /\ m.timestamp_ms <= LocalMidnight(r.value.to) + DayMs - 1)
       ELSE byFrom

\* What the effect of DateFilters hands to handleFilterChange after a render
\* with a new messages array: the messages within the range picked, all of
\* them while no range is picked.
FilteredByDate(ms) == DateFiltered(ms, range)

-----------------------------------------------------------------------------
(* The home route: handleFolderSelected and handleDemoLoad *)

\* toast.loading(text): a new toast, whose id the handler keeps.  Handlers do
\* not overlap (their triggers are disabled while isProcessing), so the id a
\* running handler holds is the last one created.
NewToast(kind, text) ==
    Append(toasts, [id |-> Len(toasts) + 1, kind |-> kind, text |-> text])

\* toast.success / toast.error / toast.loading(text, {id: toastId}): the toast
\* with that id is replaced.
UpdateToast(id, kind, text) ==
    [k \in 1..Len(toasts) |->
        IF toasts[k].id = id THEN [id |-> id, kind |-> kind, text |-> text]
        ELSE toasts[k]]

\* handleFolderSelected after "await processMessageFiles" resolved with res,
\* through the finally; the render that follows runs the effect of
\* DateFilters, which sets filteredMessages to the messages within the range.
FolderLoadSucceeds(res) ==
    /\ messages' = res
    /\ filteredMessages' = FilteredByDate(res)
    /\ participants' = ExtractParticipants(res)
    /\ mainUser' = IF Len(ExtractParticipants(res)) > 0
                   THEN Some(ExtractParticipants(res)[1])
                   ELSE mainUser
    /\ toasts' = UpdateToast(Len(toasts), "success",
                             <<"Successfully loaded messages from",
                               chatFolder.value, Len(res)>>)
    /\ isProcessing' = FALSE
    /\ UNCHANGED <<chatFolder, folderStructure, load, error, ldc>>

\* What the resolution of processMessageFiles wakes up: the handler awaiting
\* it, if there is one.
Settle ==
    IF load = "folder" /\ pmf' = "resolved"
    THEN FolderLoadSucceeds(result')
    ELSE UNCHANGED sessionVars

\* The rest of one loop iteration once file i is dealt with: the next
\* iteration reports its progress and starts reading; after the last file
\* allMessages is sorted in place and returned.
ContinueLoop(msgs) ==
    IF i + 1 < Len(sortedFiles)
    THEN /\ i' = i + 1
         /\ progress' = [current |-> i + 2, total |-> Len(sortedFiles)]
         /\ allMessages' = msgs
         /\ UNCHANGED <<pmf, result>>
    ELSE /\ i' = i + 1
         /\ allMessages' \in SortOutcomes(msgs)
         /\ result' = allMessages'
         /\ pmf' = "resolved"
         /\ UNCHANGED progress

\* The synchronous start of processMessageFiles(fs, onProgress): filter and
\* sort the files, then the first iteration up to its await (or, with no
\* message file, the sort of the empty array).  before is the progress state
\* at the call.
StartProcessing(fs, before) ==
    /\ files' = fs
    /\ sortedFiles' = SortMessageFiles(fs)
    /\ i' = 0
    /\ allMessages' = <<>>
    /\ IF Len(SortMessageFiles(fs)) > 0
       THEN /\ progress' = [current |-> 1, total |-> Len(SortMessageFiles(fs))]
            /\ pmf' = "reading"
            /\ UNCHANGED result
       ELSE /\ progress' = before
            /\ result' = <<>>
            /\ pmf' = "resolved"

\* FileThrows without its try/catch: the exception of the read leaves the
\* loop and rejects the promise of processMessageFiles.
FileThrowsRejects ==
    /\ pmf = "reading"
    /\ sortedFiles[i + 1].content.kind = "throws"
    /\ pmf' = "rejected"
    /\ UNCHANGED <<files, sortedFiles, i, allMessages, result, progress>>
    /\ UNCHANGED <<validation, sessionVars, restVars>>

\* await readJsonInChunks(file) throws: the catch logs and the loop goes on.
FileThrows ==
    /\ pmf = "reading"
    /\ sortedFiles[i + 1].content.kind = "throws"
    /\ ContinueLoop(allMessages)
    /\ Settle
    /\ UNCHANGED <<files, sortedFiles, validation, restVars>>

\* The payload has no messages array: warn and continue.
FileWithoutMessages ==
    /\ pmf = "reading"
    /\ sortedFiles[i + 1].content.kind = "no_messages"
    /\ ContinueLoop(allMessages)
    /\ Settle
    /\ UNCHANGED <<files, sortedFiles, validation, restVars>>

\* The messages are enriched and pushed.
FileEnriched ==
    /\ pmf = "reading"
    /\ sortedFiles[i + 1].content.kind = "messages"
    /\ ContinueLoop(allMessages \o EnrichFile(sortedFiles[i + 1]))
    /\ Settle
    /\ UNCHANGED <<files, sortedFiles, validation, restVars>>

-----------------------------------------------------------------------------
(* FolderUpload.handleFolderSelect, handleFolderSelected, handleDemoLoad *)

\* handleFolderSelected(fs, folder) up to "await processMessageFiles": the
\* state is reset, the folder structure built, processMessageFiles started;
\* the render that follows runs the effect of DateFilters.
HandleFolderSelected(fs, folder) ==
    /\ Len(toasts) < MaxLoads
    /\ isProcessing' = TRUE
    /\ chatFolder' = Some(folder)
    /\ messages' = <<>>
    /\ folderStructure' = Some(BuildFolderStructure(fs))
    /\ toasts' = NewToast("loading", <<"Processing message files...">>)
    /\ load' = "folder"
    /\ StartProcessing(fs, [current |-> 0, total |-> 0])
    /\ filteredMessages' = FilteredByDate(messages')
    /\ UNCHANGED <<mainUser, participants, ldc>>

\* handleFolderSelect calling onFolderSelected outside its try: the handler
\* runs although validateFolder threw.
HandleFolderSelectUnvalidated(sel) ==
    /\ ~isProcessing
    /\ Len(sel) > 0
    /\ error' = IF ValidateFolder(sel).status = "threw"
                THEN Some(ValidateFolder(sel).message) ELSE Null
    /\ HandleFolderSelected(sel, IF ValidateFolder(sel).status = "threw" THEN ""
                                 ELSE ValidateFolder(sel).chatFolder)
    /\ UNCHANGED <<validation, restVars>>

\* The change event of the folder input (disabled while isProcessing) with
\* the files sel.
HandleFolderSelect(sel) ==
    /\ ~isProcessing
    /\ IF Len(sel) = 0
       THEN /\ error' = Null
            /\ UNCHANGED <<ingestVars, chatFolder, messages, filteredMessages,
                           isProcessing, mainUser, participants,
                           folderStructure, load, toasts, ldc>>
       ELSE IF ValidateFolder(sel).status = "threw"
       THEN /\ error' = Some(ValidateFolder(sel).message)
            /\ UNCHANGED <<ingestVars, chatFolder, messages, filteredMessages,
                           isProcessing, mainUser, participants,
                           folderStructure, load, toasts, ldc>>
       ELSE /\ error' = Null
            /\ HandleFolderSelected(ValidateFolder(sel).validFiles,
                                    ValidateFolder(sel).chatFolder)
    /\ UNCHANGED <<validation, restVars>>

\* handleDemoLoad without its setMessages([]): messages stays the same array,
\* so the effect of DateFilters does not run.
HandleDemoLoadKeepsMessages ==
    /\ ~isProcessing
    /\ Len(toasts) < MaxLoads
    /\ isProcessing' = TRUE
    /\ chatFolder' = Some("Demo Chat - Movie Night Squad")
    /\ toasts' = NewToast("loading", <<"Loading demo chat...">>)
    /\ load' = "demo"
    /\ ldc' = [state |-> "fetching", reason |-> ""]
    /\ UNCHANGED <<messages, filteredMessages, mainUser, participants,
                   folderStructure, error>>
    /\ UNCHANGED <<ingestVars, validation, restVars>>

\* handleDemoLoad with a button that is not disabled while isProcessing.
HandleDemoLoadWhileProcessing ==
    /\ Len(toasts) < MaxLoads
    /\ isProcessing' = TRUE
    /\ chatFolder' = Some("Demo Chat - Movie Night Squad")
    /\ messages' = <<>>
    /\ toasts' = NewToast("loading", <<"Loading demo chat...">>)
    /\ load' = "demo"
    /\ ldc' = [state |-> "fetching", reason |-> ""]
    /\ filteredMessages' = FilteredByDate(messages')
    /\ UNCHANGED <<mainUser, participants, folderStructure, error>>
    /\ UNCHANGED <<ingestVars, validation, restVars>>

\* The click on "Open Demo Folder" (disabled while isProcessing):
\* handleDemoLoad up to "await loadDemoChat()", loadDemoChat up to its fetch;
\* the render that follows runs the effect of DateFilters.
HandleDemoLoad ==
    /\ ~isProcessing
    /\ Len(toasts) < MaxLoads
    /\ isProcessing' = TRUE
    /\ chatFolder' = Some("Demo Chat - Movie Night Squad")
    /\ messages' = <<>>
    /\ toasts' = NewToast("loading", <<"Loading demo chat...">>)
    /\ load' = "demo"
    /\ ldc' = [state |-> "fetching", reason |-> ""]
    /\ filteredMessages' = FilteredByDate(messages')
    /\ UNCHANGED <<mainUser, participants, folderStructure, error>>
    /\ UNCHANGED <<ingestVars, validation, restVars>>

\* DemoLoadFails with a handleDemoLoad that has no finally: isProcessing stays
\* true after the catch.
DemoLoadFailsWithoutFinally(reason) ==
    /\ ldc' = [state |-> "rejected", reason |-> reason]
    /\ toasts' = UpdateToast(Len(toasts), "error",
                             <<"Failed to load demo: ", reason>>)
    /\ UNCHANGED <<chatFolder, messages, filteredMessages, isProcessing,
                   mainUser, participants, folderStructure, load, error>>
    /\ UNCHANGED <<ingestVars, validation, restVars>>

\* loadDemoChat throws reason: its promise rejects, and handleDemoLoad goes
\* through its catch and its finally.
DemoLoadFails(reason) ==
    /\ ldc' = [state |-> "rejected", reason |-> reason]
    /\ toasts' = UpdateToast(Len(toasts), "error",
                             <<"Failed to load demo: ", reason>>)
    /\ isProcessing' = FALSE
    /\ UNCHANGED <<chatFolder, messages, filteredMessages, mainUser,
                   participants, folderStructure, load, error>>
    /\ UNCHANGED <<ingestVars, validation, restVars>>

\* fetch("/demo-chat/message_1.json") rejects.
DemoFetchRejects ==
    /\ ldc.state = "fetching"
    /\ DemoLoadFails("Failed to fetch")

\* The response is not ok.
DemoResponseNotOk ==
    /\ ldc.state = "fetching"
    /\ DemoLoadFails("Failed to load demo chat")

\* The response is ok: loadDemoChat awaits response.json().
DemoResponseOk ==
    /\ ldc.state = "fetching"
    /\ ldc' = [state |-> "parsing", reason |-> ""]
    /\ UNCHANGED <<chatFolder, messages, filteredMessages, isProcessing,
                   mainUser, participants, folderStructure, load, toasts, error>>
    /\ UNCHANGED <<ingestVars, validation, restVars>>

\* response.json() rejects: the body is not JSON.
DemoJsonRejects ==
    /\ ldc.state = "parsing"
    /\ DemoLoadFails("Unexpected token in JSON")

DemoName == [base |-> "demo", pre |-> 0, suf |-> 0]

\* The enrichment of loadDemoChat: id demo_<index>, no fixEncoding.
EnrichDemo(ms) ==
    [k \in 1..Len(ms) |->
        IF HasTimestamp(ms[k])
        THEN [id |-> <<DemoName, k - 1>>, sender_name |-> ms[k].sender_name,
              timestamp_ms |-> ms[k].timestamp_ms]
        ELSE [id |-> <<DemoName, k - 1>>, sender_name |-> ms[k].sender_name]]

\* What the demo file may hold: no messages array, no message, two messages
\* out of order, a message without timestamp.
DemoPayloads ==
    {NoMessages,
     Parsed(<<>>),
     Parsed(<<[sender_name |-> <<66>>, timestamp_ms |-> 2],
              [sender_name |-> <<65>>, timestamp_ms |-> 1]>>),
     Parsed(<<[sender_name |-> <<65>>, timestamp_ms |-> 1],
              [sender_name |-> <<65>>]>>)}

\* response.json() resolves with the payload: without a messages array
\* loadDemoChat throws; otherwise it enriches, sorts and returns, and
\* handleDemoLoad goes on after its await through its finally; the render
\* that follows runs the effect of DateFilters.
DemoJsonParsed ==
    /\ ldc.state = "parsing"
    /\ \E payload \in DemoPayloads :
          IF payload.kind = "no_messages"
          THEN DemoLoadFails("Invalid demo chat format")
          ELSE \E demoMessages \in SortOutcomes(EnrichDemo(payload.messages)) :
                  /\ ldc' = [state |-> "fulfilled", reason |-> ""]
                  /\ messages' = demoMessages
                  /\ filteredMessages' = FilteredByDate(demoMessages)
                  /\ participants' = ExtractParticipants(demoMessages)
                  /\ mainUser' = IF Len(ExtractParticipants(demoMessages)) > 0
                                 THEN Some(ExtractParticipants(demoMessages)[1])
                                 ELSE mainUser
                  /\ toasts' = UpdateToast(Len(toasts), "success",
                                   <<"Successfully loaded demo messages with participants",
                                     Len(demoMessages),
                                     Len(ExtractParticipants(demoMessages))>>)
                  /\ isProcessing' = FALSE
                  /\ UNCHANGED <<chatFolder, folderStructure, load, error>>
                  /\ UNCHANGED <<ingestVars, validation, restVars>>

-----------------------------------------------------------------------------
(* Initial values *)

IngestIdle ==
    /\ files = <<>>
    /\ sortedFiles = <<>>
    /\ i = 0
    /\ allMessages = <<>>
    /\ pmf = "idle"
    /\ result = <<>>
    /\ progress = [current |-> 0, total |-> 0]

\* The useState initial values of HomeComponent and FolderUpload.
SessionInitial ==
    /\ chatFolder = Null
    /\ messages = <<>>
    /\ filteredMessages = <<>>
    /\ isProcessing = FALSE
    /\ mainUser = Null
    /\ participants = <<>>
    /\ folderStructure = Null
    /\ load = "none"
    /\ toasts = <<>>
    /\ error = Null
    /\ ldc = [state |-> "none", reason |-> ""]

\* Nothing written and no call made yet.
EncodingInitial ==
    /\ original = <<>>
    /\ argument = Null
    /\ fixed = Null

\* No file yet and no call made.
ReadInitial ==
    /\ fileBytes = <<>>
    /\ chunkSize = 0
    /\ offset = 0
    /\ readText = <<>>
    /\ slices = <<>>
    /\ rjc = [state |-> "idle", value |-> [ok |-> FALSE, value |-> <<>>]]

\* No MessageBubble yet.
BubbleInitial ==
    /\ bubble = "unmounted"
    /\ bubbleMessage = [photos |-> <<>>, videos |-> <<>>, gifs |-> <<>>]
    /\ bubbleFolder = Null
    /\ loadedImages = {}
    /\ blobUrls = <<>>
    /\ objectUrls = 0
    /\ outstanding = {}

\* The useState initial values of SearchBar and DateFilters.
FilterInitial ==
    /\ searchTerm = <<>>
    /\ startDate = 0
    /\ endDate = 0
    /\ showResults = FALSE
    /\ range = Null

\* No call of cleanAttachmentPath yet; nothing selected, no timeout pending
\* and no scrollToIndex call made.
LaterInitial ==
    /\ attachmentUri = <<>>
    /\ cleaned = Null
    /\ selectedMessageId = Null
    /\ timers = <<>>
    /\ centred = Null

RestInitial ==
    /\ EncodingInitial
    /\ ReadInitial
    /\ BubbleInitial
    /\ FilterInitial
    /\ LaterInitial

-----------------------------------------------------------------------------
(* Ingestion alone: processMessageFiles called on every bounded file list *)

\* Raw messages of the explored files: every timestamp, or none, and a sender
\* name that fixEncoding changes.
IngestMessages ==
    [sender_name : {<<195, 169>>}, timestamp_ms : Timestamps]
    \cup [sender_name : {<<195, 169>>}]

\* "message_1.json", "message_2.json" and "3_message_1.json".
IngestNames ==
    {[base |-> "message", pre |-> 0, suf |-> 1],
     [base |-> "message", pre |-> 0, suf |-> 2],
     [base |-> "message", pre |-> 3, suf |-> 1]}

\* Name and content of the files holding at most n messages: a message file
\* (unparsable, without a messages array, or with messages), or a media file
\* (never read).
IngestFiles(n) ==
    [name : IngestNames,
     content : {Throws, NoMessages}
               \cup {Parsed(ms) : ms \in SeqsUpTo(IngestMessages, n)}]
    \cup {[name |-> OtherName, content |-> Throws]}

RECURSIVE CountMessages(_)
CountMessages(fs) ==
    IF fs = <<>> THEN 0
    ELSE Len(Head(fs).content.messages) + CountMessages(Tail(fs))

\* Where a file of that name lies: message files in the chat folder, media
\* files in its photos folder; a file whose name the list already holds lies
\* one folder deeper ("copy") than the last one, since the paths of a file
\* list are distinct.
DirsFor(fs, name) ==
    <<"chat">>
    \o [k \in 1..Cardinality({n \in 1..Len(fs) : fs[n].name = name}) |-> "copy"]
    \o (IF name.base = "message" THEN <<>> ELSE <<"photos">>)

InitIngest ==
    /\ IngestIdle
    /\ SessionInitial
    /\ validation = [status |-> "none"]
    /\ RestInitial

\* The caller puts one more file into the list it will pass.
PickFile ==
    /\ pmf = "idle"
    /\ Len(files) < MaxFiles
    /\ \E f \in IngestFiles(MaxMsgs - CountMessages(files)) :
          files' = Append(files, [name |-> f.name, dirs |-> DirsFor(files, f.name),
                                  rel |-> TRUE, content |-> f.content])
    /\ UNCHANGED <<sortedFiles, i, allMessages, pmf, result, progress>>
    /\ UNCHANGED <<validation, sessionVars, restVars>>

\* processMessageFiles(files, onProgress) is called.
ProcessMessageFiles ==
    /\ pmf = "idle"
    /\ StartProcessing(files, progress)
    /\ UNCHANGED <<validation, sessionVars, restVars>>

NextIngest ==
    \/ PickFile
    \/ ProcessMessageFiles
    \/ FileThrows
    \/ FileWithoutMessages
    \/ FileEnriched

SpecIngest == InitIngest /\ [][NextIngest]_vars

-----------------------------------------------------------------------------
(* Validation alone: validateFolder called on every bounded file list *)

\* The paths of the explored files: no relative path (""), a bare file name,
\* a file in a directory named "" ("/name"), in the chat folder, in a media
\* folder, in a media folder of the chat folder.
ValidatePaths ==
    {[rel |-> FALSE, dirs |-> <<>>]}
    \cup [rel : {TRUE},
          dirs : {<<>>, <<"">>, <<"chat">>, <<"photos">>, <<"chat", "files">>}]

\* "message_1.json" or a media file, at each path; validateFolder reads no
\* file.
ValidateFiles ==
    {[name |-> n, dirs |-> p.dirs, rel |-> p.rel, content |-> Throws] :
        n \in {[base |-> "message", pre |-> 0, suf |-> 1], OtherName},
        p \in ValidatePaths}

InitValidate ==
    /\ IngestIdle
    /\ SessionInitial
    /\ validation = [status |-> "none"]
    /\ RestInitial

\* One more file in the list; the relative paths of a list are distinct.
PickPath ==
    /\ validation.status = "none"
    /\ Len(files) < MaxSelected
    /\ \E f \in ValidateFiles :
          /\ f.rel => ~\E k \in 1..Len(files) : files[k] = f
          /\ files' = Append(files, f)
    /\ UNCHANGED <<sortedFiles, i, allMessages, pmf, result, progress>>
    /\ UNCHANGED <<validation, sessionVars, restVars>>

\* validateFolder(files) is called.
CallValidateFolder ==
    /\ validation.status = "none"
    /\ validation' = ValidateFolder(files)
    /\ UNCHANGED <<ingestVars, sessionVars, restVars>>

NextValidate ==
    \/ PickPath
    \/ CallValidateFolder

SpecValidate == InitValidate /\ [][NextValidate]_vars

NoMediaParent == ~\E k \in 1..Len(files) : HasMediaParent(files[k])
SomeMessageFile == \E k \in 1..Len(files) : IsMessageFile(files[k])

\* The first message file of the list, in the order given.
FirstMessageFile ==
    files[CHOOSE k \in 1..Len(files) :
            IsMessageFile(files[k]) /\ \A j \in 1..(k - 1) : ~IsMessageFile(files[j])]

NoParentName(f) == ~ParentDir(f).defined \/ ParentDir(f).name = ""

\* C7 as stated: whenever no selected file has a media folder as its parent
\* directory, validateFolder fails with the "no media folders" error.
C7_NoMediaFoldersError ==
    (validation.status # "none" /\ Len(files) > 0 /\ NoMediaParent)
        => validation = Threw(ErrNoMediaFolders)

\* C7 amended: with at least one message file and no file whose parent
\* directory is a media folder, validateFolder fails with the "no media
\* folders" error; without any message file it fails with the "no message
\* files" error instead.
C7_NoMediaFoldersAfterMessageFiles ==
    (validation.status # "none" /\ NoMediaParent)
        => validation = IF SomeMessageFile THEN Threw(ErrNoMediaFolders)
                        ELSE Threw(ErrNoMessageFiles)

\* C7 happens: message files, none of the files in a media folder, and the
\* "no media folders" error.
C7_Witness ==
    /\ SomeMessageFile
    /\ NoMediaParent
    /\ validation = Threw(ErrNoMediaFolders)

\* C8 as stated: a successful validateFolder returns the parent directory
\* name of the first message file and the input files unchanged; when that
\* name is empty or absent it fails with the "folder name undeterminable"
\* error.
C8_ChatFolderOfFirstMessageFile ==
    /\ validation.status = "returned"
          => /\ SomeMessageFile
             /\ validation.chatFolder = ParentDir(FirstMessageFile).name
             /\ ~NoParentName(FirstMessageFile)
             /\ validation.validFiles = files
    /\ (validation.status # "none" /\ SomeMessageFile /\ NoParentName(FirstMessageFile))
          => validation = Threw(ErrNoChatFolder)

\* C8 amended: as C8, but the "folder name undeterminable" error needs a file
\* in a media folder; with none, an empty or absent name gives the "no media
\* folders" error.
C8_ChatFolderAfterMediaFolders ==
    /\ validation.status = "returned"
          => /\ SomeMessageFile
             /\ validation.chatFolder = ParentDir(FirstMessageFile).name
             /\ ~NoParentName(FirstMessageFile)
             /\ validation.validFiles = files
    /\ (validation.status # "none" /\ SomeMessageFile /\ NoParentName(FirstMessageFile))
          => validation = IF NoMediaParent THEN Threw(ErrNoMediaFolders)
                          ELSE Threw(ErrNoChatFolder)

\* C8 happens: a file in a media folder, a first message file without a
\* parent directory name and a later one with a name, and the "folder name
\* undeterminable" error.
C8_Witness ==
    /\ validation = Threw(ErrNoChatFolder)
    /\ ~NoMediaParent
    /\ \E k \in 1..Len(files) : IsMessageFile(files[k]) /\ ~NoParentName(files[k])

-----------------------------------------------------------------------------
(* VirtualMessageList: the scroll-to-selected effect *)

\* The effect of VirtualMessageList, run after a render in which
\* selectedMessageId or its messages prop (filteredMessages) changed: with a
\* selected id that findIndex finds among the messages it calls
\* scrollToIndex(index, {align: "center"}), otherwise nothing.
RunScrollEffect ==
    centred' =
        IF /\ ~selectedMessageId'.null
           /\ \E k \in 1..Len(filteredMessages') :
                 filteredMessages'[k].id = selectedMessageId'.value
        THEN selectedMessageId'
        ELSE centred

-----------------------------------------------------------------------------
(* SearchBar and DateFilters: the handlers *)

\* The queries typed: "", " ", "cat", "Cat", "bo", "c.t" and " s".
Queries ==
    {<<>>, <<32>>, <<99, 97, 116>>, <<67, 97, 116>>, <<98, 111>>,
     <<99, 46, 116>>, <<32, 115>>}

\* What the Calendar may hand to onSelect: undefined, a first day alone, or
\* a first and a last day.
Ranges ==
    {Null}
    \cup {Some([from |-> a, to |-> b]) :
            <<a, b>> \in {p \in Days \X ({0} \cup Days) :
                            p[2] = 0 \/ p[1] <= p[2]}}

\* onChange of the search input.  The render that follows runs the effect
\* of SearchBar, whose onFilterChange is undefined (the route passes
\* messages and onMessageSelect only): the call throws and no state of the
\* route is set.
SetSearchTerm(q) ==
    /\ searchTerm' = q
    /\ showResults' = (Len(Trim(q)) > 0)
    /\ UNCHANGED <<startDate, endDate, range>>
    /\ UNCHANGED <<ingestVars, validation, sessionVars, encodingVars,
                   readVars, bubbleVars, pathVars, selectionVars>>

\* onFocus of the search input.
FocusSearch ==
    /\ showResults' = (Len(Trim(searchTerm)) > 0)
    /\ UNCHANGED <<searchTerm, startDate, endDate, range>>
    /\ UNCHANGED <<ingestVars, validation, sessionVars, encodingVars,
                   readVars, bubbleVars, pathVars, selectionVars>>

\* handleClearSearch, whose button is rendered while searchTerm is not "".
HandleClearSearch ==
    /\ searchTerm # <<>>
    /\ searchTerm' = <<>>
    /\ showResults' = FALSE
    /\ UNCHANGED <<startDate, endDate, range>>
    /\ UNCHANGED <<ingestVars, validation, sessionVars, encodingVars,
                   readVars, bubbleVars, pathVars, selectionVars>>

\* onChange of the start date input of SearchBar.
SetStartDate(d) ==
    /\ startDate' = d
    /\ UNCHANGED <<searchTerm, endDate, showResults, range>>
    /\ UNCHANGED <<ingestVars, validation, sessionVars, encodingVars,
                   readVars, bubbleVars, pathVars, selectionVars>>

\* onChange of the end date input of SearchBar.
SetEndDate(d) ==
    /\ endDate' = d
    /\ UNCHANGED <<searchTerm, startDate, showResults, range>>
    /\ UNCHANGED <<ingestVars, validation, sessionVars, encodingVars,
                   readVars, bubbleVars, pathVars, selectionVars>>

\* handleClearDates of SearchBar, whose button is rendered while a date is
\* set.
SearchBarHandleClearDates ==
    /\ startDate # 0 \/ endDate # 0
    /\ startDate' = 0
    /\ endDate' = 0
    /\ UNCHANGED <<searchTerm, showResults, range>>
    /\ UNCHANGED <<ingestVars, validation, sessionVars, encodingVars,
                   readVars, bubbleVars, pathVars, selectionVars>>

\* onSelect of the Calendar: setRange(r), and the effect of DateFilters that
\* follows, in which handleFilterChange sets filteredMessages.
SetRange(r) ==
    /\ range' = r
    /\ filteredMessages' = DateFiltered(messages, r)
    /\ UNCHANGED <<searchTerm, startDate, endDate, showResults>>
    /\ UNCHANGED <<chatFolder, messages, isProcessing, mainUser, participants,
                   folderStructure, load, toasts, error, ldc>>
    /\ UNCHANGED <<selectedMessageId, timers>>
    /\ RunScrollEffect
    /\ UNCHANGED <<ingestVars, validation, encodingVars, readVars, bubbleVars,
                   pathVars>>

\* handleClearDates of DateFilters, whose button is rendered while
\* range?.from is set.
DateFiltersHandleClearDates ==
    /\ ~range.null
    /\ range.value.from # 0
    /\ SetRange(Null)

-----------------------------------------------------------------------------
(* The session: folder selections and demo loads of one page *)

MessageFile(suf, dirs, content) ==
    [name |-> [base |-> "message", pre |-> 0, suf |-> suf], dirs |-> dirs,
     rel |-> TRUE, content |-> content]
MediaFile(dirs) ==
    [name |-> OtherName, dirs |-> dirs, rel |-> TRUE, content |-> Throws]

\* The folders the user may select: nothing, a chat folder with two message
\* files and photos, a chat folder whose first two message files cannot be
\* used, a folder without media folders, a folder without message files.
Selections ==
    {<<>>,
     <<MessageFile(2, <<"chat">>,
                   Parsed(<<[sender_name |-> <<65>>, timestamp_ms |-> 2]>>)),
       MessageFile(1, <<"chat">>,
                   Parsed(<<[sender_name |-> <<195, 169>>, timestamp_ms |-> 2],
                            [sender_name |-> <<65>>, timestamp_ms |-> 1]>>)),
       MediaFile(<<"chat", "photos">>)>>,
     <<MessageFile(1, <<"old">>, Throws),
       MessageFile(2, <<"old">>, NoMessages),
       MessageFile(3, <<"old">>,
                   Parsed(<<[sender_name |-> <<66>>, timestamp_ms |-> 1]>>)),
       MediaFile(<<"old", "audio">>)>>,
     <<MessageFile(1, <<"chat">>,
                   Parsed(<<[sender_name |-> <<65>>, timestamp_ms |-> 1]>>))>>,
     <<MediaFile(<<"chat", "photos">>)>>}

\* The queries typed during the session: "a", which the sender "A" matches,
\* and "bo", which no sender matches.
SessionQueries == {<<97>>, <<98, 111>>}

\* The ranges picked during the session: the first day alone (the day of
\* every message of the folders above), and from the second day on.
SessionRanges ==
    {Some([from |-> 1, to |-> 1]), Some([from |-> 2, to |-> 0])}

Init ==
    /\ IngestIdle
    /\ SessionInitial
    /\ validation = [status |-> "none"]
    /\ RestInitial

Next ==
    \/ \E sel \in Selections : HandleFolderSelect(sel)
    \/ FileThrows
    \/ FileWithoutMessages
    \/ FileEnriched
    \/ HandleDemoLoad
    \/ DemoFetchRejects
    \/ DemoResponseNotOk
    \/ DemoResponseOk
    \/ DemoJsonRejects
    \/ DemoJsonParsed
    \/ \E q \in SessionQueries : SetSearchTerm(q)
    \/ HandleClearSearch
    \/ \E r \in SessionRanges : SetRange(r)
    \/ DateFiltersHandleClearDates

Spec == Init /\ [][Next]_vars

\* The read of the file at hand settles: it throws, or it yields a payload
\* without or with messages.
ReadSettles == FileThrows \/ FileWithoutMessages \/ FileEnriched

\* The fetch of loadDemoChat settles: it rejects or it resolves with a
\* response, ok or not.
FetchSettles == DemoFetchRejects \/ DemoResponseNotOk \/ DemoResponseOk

\* response.json() settles.
JsonSettles == DemoJsonRejects \/ DemoJsonParsed

\* The session when every promise a handler awaits settles in the end: each
\* read of processMessageFiles, the fetch and the response.json() of
\* loadDemoChat; the continuation of the handler then runs.
SpecLive ==
    /\ Init
    /\ [][Next]_vars
    /\ WF_vars(ReadSettles)
    /\ WF_vars(FetchSettles)
    /\ WF_vars(JsonSettles)

\* What the message list shows: the filtered messages once a chat folder is
\* set and messages is not empty, else the "No Conversation Loaded" panel.
Shown ==
    IF ~chatFolder.null /\ chatFolder.value # "" /\ Len(messages) > 0
    THEN filteredMessages
    ELSE <<>>

\* C9: a step of handleFolderSelect in which validateFolder throws sets the
\* validation error and nothing else: handleFolderSelected does not run,
\* processMessageFiles is not called, messages, chat folder and isProcessing
\* (and the rest of the session state) stay as they are.
C9_FailedValidationStartsNothing ==
    [][\A sel \in Selections :
          (/\ Len(sel) > 0
           /\ ValidateFolder(sel).status = "threw"
           /\ HandleFolderSelect(sel))
          => /\ error' = Some(ValidateFolder(sel).message)
             /\ UNCHANGED <<ingestVars, chatFolder, messages, filteredMessages,
                            isProcessing, mainUser, participants,
                            folderStructure, load, toasts, ldc>>]_vars

\* C9 happens: the "no media folders" error is shown while the archive loaded
\* before is still there.
C9_Witness ==
    /\ error = Some(ErrNoMediaFolders)
    /\ Len(messages) > 0
    /\ ~isProcessing

\* C10: once loadDemoChat has thrown, the toast of this load, and no other
\* toast, is the failure notification with the message thrown, nothing is
\* shown in the message list and isProcessing is false; processMessageFiles
\* never rejects, so a folder load has no such failure.
C10_FailedLoadResets ==
    /\ load = "folder" => pmf \in {"reading", "resolved"}
    /\ (load = "demo" /\ ldc.state = "rejected")
          => /\ toasts[Len(toasts)] =
                    [id |-> Len(toasts), kind |-> "error",
                     text |-> <<"Failed to load demo: ", ldc.reason>>]
             /\ \A k \in 1..(Len(toasts) - 1) : toasts[k].id # Len(toasts)
             /\ Shown = <<>>
             /\ ~isProcessing

\* C10 happens: the demo load failed after an archive had been loaded, whose
\* participants are still in the session.
C10_Witness ==
    /\ load = "demo"
    /\ ldc.state = "rejected"
    /\ Len(participants) > 0
    /\ toasts[Len(toasts)].text = <<"Failed to load demo: ", "Failed to fetch">>

-----------------------------------------------------------------------------
(* The aggregated collection: properties of the result of processMessageFiles *)

\* a.timestamp_ms <= b.timestamp_ms as JavaScript evaluates it: false when
\* either timestamp is missing.
TimestampLeq(a, b) ==
    HasTimestamp(a) /\ HasTimestamp(b) /\ a.timestamp_ms <= b.timestamp_ms

SortedByTimestamp(ms) ==
    \A k \in 1..(Len(ms) - 1) : TimestampLeq(ms[k], ms[k + 1])

Occurrences(ms, x) == Cardinality({k \in 1..Len(ms) : ms[k] = x})

SameElements(a, b) ==
    /\ Len(a) = Len(b)
    /\ \A k \in 1..Len(a) : Occurrences(a, a[k]) = Occurrences(b, a[k])

\* A message file that is read and parsed and holds a messages array.
ParsedMessageFile(f) == IsMessageFile(f) /\ f.content.kind = "messages"
FailedMessageFile(f) == IsMessageFile(f) /\ f.content.kind # "messages"
NotFailed(f) == ~FailedMessageFile(f)

\* C1: the collection processMessageFiles returns is sorted non-decreasing by
\* timestamp, result[k].timestamp_ms <= result[k+1].timestamp_ms for every
\* adjacent pair, whatever the files and the messages hold.
C1_SortedByTimestamp ==
    pmf = "resolved" => SortedByTimestamp(result)

\* C2: no two elements of the result of processMessageFiles have the same id.
C2_UniqueIds ==
    pmf = "resolved" =>
        \A a, b \in 1..Len(result) : a # b => result[a].id # result[b].id

\* C3: records with exactly the same timestamp stand in file order (the
\* record of the file with the smaller numeric suffix first) and, within one
\* file, in their original order.
C3_TieStability ==
    pmf = "resolved" =>
        \A a, b \in 1..Len(result) :
            (/\ a < b
             /\ HasTimestamp(result[a]) /\ HasTimestamp(result[b])
             /\ result[a].timestamp_ms = result[b].timestamp_ms)
            => /\ result[a].id[1].suf <= result[b].id[1].suf
               /\ (/\ result[a].id[1] = result[b].id[1]
                   /\ Cardinality({k \in 1..Len(files) :
                                     files[k].name = result[a].id[1]}) = 1)
                  => result[a].id[2] < result[b].id[2]

\* C4: the result holds exactly the messages of the message files that were
\* parsed, each once, ordered by timestamp.
C4_ExactlyTheParsedMessages ==
    pmf = "resolved" =>
        /\ SameElements(result,
                        Flatten([k \in 1..Len(files) |->
                                   IF ParsedMessageFile(files[k])
                                   THEN EnrichFile(files[k]) ELSE <<>>]))
        /\ SortedByTimestamp(result)

\* What processMessageFiles returns for files none of which fails.
IngestOf(fs) ==
    SortOutcomes(Flatten([k \in 1..Len(SortMessageFiles(fs)) |->
                            EnrichFile(SortMessageFiles(fs)[k])]))

\* C5: a message file whose read or parse fails, or whose payload has no
\* messages array, contributes nothing (while the loop runs allMessages holds
\* the records of the files done that did not fail, and a file is left to
\* read); processMessageFiles does not reject, and it resolves with what the
\* other files alone give.
C5_PartialFailureTolerance ==
    /\ pmf \in {"idle", "reading", "resolved"}
    /\ pmf = "reading" =>
          /\ i < Len(sortedFiles)
          /\ allMessages = Flatten([k \in 1..i |->
                                      IF ParsedMessageFile(sortedFiles[k])
                                      THEN EnrichFile(sortedFiles[k]) ELSE <<>>])
    /\ pmf = "resolved" => result \in IngestOf(SelectSeq(files, NotFailed))

\* C5 happens: resolved with messages although a message file threw.
C5_Witness ==
    /\ pmf = "resolved"
    /\ Len(result) > 0
    /\ \E k \in 1..Len(files) :
          IsMessageFile(files[k]) /\ files[k].content.kind = "throws"

\* C6: every element of the result has a timestamp.
C6_EveryElementHasTimestamp ==
    pmf = "resolved" => \A k \in 1..Len(result) : HasTimestamp(result[k])

-----------------------------------------------------------------------------
(* fixEncoding alone: called on every bounded text, as it was written or as
   the export holds it *)

\* The code points written: "A", DEL, e acute, L with stroke, the byte order
\* mark (zero width no-break space) and the grinning face.
CodePoints == {65, 127, 233, 321, 65279, 128512}

\* The UTF-8 bytes of a code point.
Utf8Bytes(cp) ==
    IF cp < 128 THEN <<cp>>
    ELSE IF cp < 2048 THEN <<192 + (cp \div 64), 128 + (cp % 64)>>
    ELSE IF cp < 65536
    THEN <<224 + (cp \div 4096), 128 + ((cp \div 64) % 64), 128 + (cp % 64)>>
    ELSE <<240 + (cp \div 262144), 128 + ((cp \div 4096) % 64),
           128 + ((cp \div 64) % 64), 128 + (cp % 64)>>

\* The broken string fixEncoding expects: the UTF-8 bytes of the text, each
\* read as one character (Latin-1).
Misread(cps) == Flatten([k \in 1..Len(cps) |-> Utf8Bytes(cps[k])])

\* The text as a string: its UTF-16 code units.
Written(cps) == Flatten([k \in 1..Len(cps) |-> CodeUnits(cps[k])])

InitEncoding ==
    /\ IngestIdle
    /\ SessionInitial
    /\ validation = [status |-> "none"]
    /\ RestInitial

\* One more code point in the text.
WriteCodePoint ==
    /\ argument.null
    /\ Len(original) < MaxText
    /\ \E cp \in CodePoints : original' = Append(original, cp)
    /\ UNCHANGED <<argument, fixed>>
    /\ UNCHANGED <<ingestVars, validation, sessionVars, readVars, bubbleVars,
                 filterVars, pathVars, selectionVars>>

\* fixEncoding is called on the text as the export holds it.
FixMisread ==
    /\ argument.null
    /\ argument' = Some(Misread(original))
    /\ fixed' = Some(FixEncoding(Misread(original)))
    /\ UNCHANGED original
    /\ UNCHANGED <<ingestVars, validation, sessionVars, readVars, bubbleVars,
                 filterVars, pathVars, selectionVars>>

\* fixEncoding is called on the text itself.
FixWritten ==
    /\ argument.null
    /\ argument' = Some(Written(original))
    /\ fixed' = Some(FixEncoding(Written(original)))
    /\ UNCHANGED original
    /\ UNCHANGED <<ingestVars, validation, sessionVars, readVars, bubbleVars,
                 filterVars, pathVars, selectionVars>>

NextEncoding ==
    \/ WriteCodePoint
    \/ FixMisread
    \/ FixWritten

SpecEncoding == InitEncoding /\ [][NextEncoding]_vars

\* C16: fixEncoding applied to the UTF-8 bytes of a text read as Latin-1
\* gives the text back, whatever the text.
C16_RepairRoundTrip ==
    (~argument.null /\ argument.value = Misread(original))
        => fixed.value = Written(original)

\* C17: fixEncoding returns a string of code units below 128 as it is.
C17_AsciiIdentity ==
    (~argument.null /\ \A k \in 1..Len(argument.value) : argument.value[k] < 128)
        => fixed.value = argument.value

\* C17 happens: fixEncoding was called on "A", DEL.
C17_Witness ==
    /\ ~argument.null
    /\ argument.value = <<65, 127>>
    /\ fixed.value = <<65, 127>>

\* The string is what fixEncoding expects: code units below 256 that are
\* valid UTF-8 when taken as bytes.
SingleByteUtf8(units) ==
    /\ \A k \in 1..Len(units) : units[k] < 256
    /\ Utf8Decode(units).ok

\* C18: fixEncoding returns its input as it is whenever the input is not a
\* sequence of single-byte characters that form valid UTF-8, in particular
\* whenever a code unit of it is above 255.
C18_UnchangedWhenNotMisread ==
    (~argument.null /\ ~SingleByteUtf8(argument.value)) => fixed.value = argument.value

-----------------------------------------------------------------------------
(* readJsonInChunks alone: called on every bounded file with every bounded
   chunk size *)

\* The UTF-8 decoder without "fatal": a byte that cannot start or continue a
\* character gives U+FFFD, and decoding goes on at the offending byte.
RECURSIVE Utf8DecodeLossy(_)
Utf8DecodeLossy(b) ==
    IF Len(b) = 0 THEN <<>>
    ELSE
      LET b1 == b[1]
          need == IF b1 <= 127 THEN 0
                  ELSE IF b1 >= 194 /\ b1 <= 223 THEN 1
                  ELSE IF b1 >= 224 /\ b1 <= 239 THEN 2
                  ELSE IF b1 >= 240 /\ b1 <= 244 THEN 3
                  ELSE -1
          lo == IF b1 = 224 THEN 160 ELSE IF b1 = 240 THEN 144 ELSE 128
          hi == IF b1 = 237 THEN 159 ELSE IF b1 = 244 THEN 143 ELSE 191
          Continues(k) ==
              /\ k + 1 <= Len(b)
              /\ IF k = 1 THEN b[2] >= lo /\ b[2] <= hi
                 ELSE b[k + 1] >= 128 /\ b[k + 1] <= 191
          got == Cardinality({j \in 1..need : \A k \in 1..j : Continues(k)})
          cp == CASE need = 0 -> b1
                  [] need = 1 -> (b1 - 192) * 64 + (b[2] - 128)
                  [] need = 2 -> (b1 - 224) * 4096 + (b[2] - 128) * 64 + (b[3] - 128)
                  [] need = 3 -> (b1 - 240) * 262144 + (b[2] - 128) * 4096
                                  + (b[3] - 128) * 64 + (b[4] - 128)
      IN
        IF need = -1 THEN <<65533>> \o Utf8DecodeLossy(Tail(b))
        ELSE IF got = need
        THEN CodeUnits(cp) \o Utf8DecodeLossy(SubSeq(b, need + 2, Len(b)))
        ELSE <<65533>> \o Utf8DecodeLossy(SubSeq(b, got + 2, Len(b)))

\* Blob.text(): the bytes decoded as UTF-8, a leading byte order mark dropped.
BlobText(b) ==
    LET units == Utf8DecodeLossy(b)
    IN IF Len(units) > 0 /\ units[1] = 65279 THEN Tail(units) ELSE units

\* The bytes of the explored files: the quote, "A", and the two bytes of
\* e acute in UTF-8.
FileBytes == {34, 65, 195, 169}

\* JSON.parse(t) for a text of the characters those bytes decode to (the
\* quote, "A", e acute, U+FFFD): the only JSON texts are the string literals,
\* anything else is a SyntaxError.
JsonParse(t) ==
    IF /\ Len(t) >= 2
       /\ t[1] = 34
       /\ t[Len(t)] = 34
       /\ \A k \in 2..(Len(t) - 1) : t[k] # 34 /\ t[k] # 92 /\ t[k] >= 32
    THEN [ok |-> TRUE, value |-> SubSeq(t, 2, Len(t) - 1)]
    ELSE [ok |-> FALSE, value |-> <<>>]

\* The promise of readJsonInChunks once JSON.parse(t) has run.
Settled(t) ==
    [state |-> IF JsonParse(t).ok THEN "fulfilled" ELSE "rejected",
     value |-> JsonParse(t)]

InitRead ==
    /\ IngestIdle
    /\ SessionInitial
    /\ validation = [status |-> "none"]
    /\ RestInitial

\* One more byte in the file.
WriteByte ==
    /\ rjc.state = "idle"
    /\ Len(fileBytes) < MaxBytes
    /\ \E b \in FileBytes : fileBytes' = Append(fileBytes, b)
    /\ UNCHANGED <<chunkSize, offset, readText, slices, rjc>>
    /\ UNCHANGED <<ingestVars, validation, sessionVars, encodingVars, bubbleVars,
                 filterVars, pathVars, selectionVars>>

\* readJsonInChunks(file, c) up to its first await; the loop of an empty file
\* has no iteration.
ReadJsonInChunks ==
    /\ rjc.state = "idle"
    /\ \E c \in 1..MaxChunk : chunkSize' = c
    /\ offset' = 0
    /\ readText' = <<>>
    /\ slices' = <<>>
    /\ rjc' = IF Len(fileBytes) = 0 THEN Settled(<<>>)
              ELSE [state |-> "reading", value |-> [ok |-> FALSE, value |-> <<>>]]
    /\ UNCHANGED fileBytes
    /\ UNCHANGED <<ingestVars, validation, sessionVars, encodingVars, bubbleVars,
                 filterVars, pathVars, selectionVars>>

\* file.slice(offset, offset + chunkSize)
Slice(from) ==
    SubSeq(fileBytes, from + 1,
           IF from + chunkSize < Len(fileBytes) THEN from + chunkSize
           ELSE Len(fileBytes))

\* chunk.text() resolves: the text grows, and the loop goes on with the next
\* slice or ends, and then JSON.parse(text) is returned or throws.
ChunkRead ==
    /\ rjc.state = "reading"
    /\ readText' = readText \o BlobText(Slice(offset))
    /\ slices' = Append(slices, <<offset, offset + Len(Slice(offset))>>)
    /\ offset' = offset + chunkSize
    /\ rjc' = IF offset + chunkSize < Len(fileBytes) THEN rjc
              ELSE Settled(readText')
    /\ UNCHANGED <<fileBytes, chunkSize>>
    /\ UNCHANGED <<ingestVars, validation, sessionVars, encodingVars, bubbleVars,
                 filterVars, pathVars, selectionVars>>

NextRead ==
    \/ WriteByte
    \/ ReadJsonInChunks
    \/ ChunkRead

SpecRead == InitRead /\ [][NextRead]_vars

\* C19: the slices read are [0,c), [c,2c), ... in order, each byte once, and
\* readJsonInChunks returns what JSON.parse gives for the whole file read at
\* once (the same value, or a failure where that fails), also when a
\* multi-byte character lies across two slices.
C19_ChunkedReadSameResult ==
    /\ \A k \in 1..Len(slices) :
          /\ slices[k][1] = (k - 1) * chunkSize
          /\ slices[k][2] = IF k * chunkSize < Len(fileBytes) THEN k * chunkSize
                            ELSE Len(fileBytes)
    /\ rjc.state \in {"fulfilled", "rejected"}
          => /\ Len(fileBytes) > 0 => slices[Len(slices)][2] = Len(fileBytes)
             /\ rjc.value = JsonParse(BlobText(fileBytes))

-----------------------------------------------------------------------------
(* One MessageBubble: its previews *)

\* The uris of the explored attachments, and uri.split("/").pop().
Uris == {"inbox/photos/p1.jpg", "inbox/photos/p2.jpg", "inbox/videos/v1.mp4"}
FileName(uri) ==
    CASE uri = "inbox/photos/p1.jpg" -> "p1.jpg"
      [] uri = "inbox/photos/p2.jpg" -> "p2.jpg"
      [] uri = "inbox/videos/v1.mp4" -> "v1.mp4"

\* The messages a bubble may show: without attachments, with two photos, with
\* a photo and a video, with the same photo listed twice.
BubbleMessages ==
    {[photos |-> <<>>, videos |-> <<>>, gifs |-> <<>>],
     [photos |-> <<"inbox/photos/p1.jpg", "inbox/photos/p2.jpg">>,
      videos |-> <<>>, gifs |-> <<>>],
     [photos |-> <<"inbox/photos/p1.jpg">>,
      videos |-> <<"inbox/videos/v1.mp4">>, gifs |-> <<>>],
     [photos |-> <<"inbox/photos/p1.jpg", "inbox/photos/p1.jpg">>,
      videos |-> <<>>, gifs |-> <<>>]}

\* The folder structures a bubble may get: none, one with every file, one
\* without p2.jpg.
BubbleFolders ==
    {Null,
     Some([photos |-> {"p1.jpg", "p2.jpg"}, videos |-> {"v1.mp4"}, gifs |-> {}]),
     Some([photos |-> {"p1.jpg"}, videos |-> {"v1.mp4"}, gifs |-> {}])}

\* The uris for which the useMemo of blobUrls calls URL.createObjectURL, in
\* the order of the calls: photos, videos, gifs that are loaded and whose
\* file the folder structure holds.
ObjectUrlCalls(msg, folder, loaded) ==
    IF folder.null THEN <<>>
    ELSE SelectSeq(msg.photos,
                   LAMBDA u : u \in loaded /\ FileName(u) \in folder.value.photos)
         \o SelectSeq(msg.videos,
                   LAMBDA u : u \in loaded /\ FileName(u) \in folder.value.videos)
         \o SelectSeq(msg.gifs,
                   LAMBDA u : u \in loaded /\ FileName(u) \in folder.value.gifs)

\* A render in which a dependency of blobUrls changed, and its commit: the
\* memo makes a URL per call and keeps, per uri, the last one (urls[uri] is
\* assigned again); the cleanup of the effect of the previous blobUrls
\* revokes the URLs that one held.
Rerender(msg, folder, loaded) ==
    LET calls == ObjectUrlCalls(msg, folder, loaded)
        made == [k \in 1..Len(calls) |-> [id |-> objectUrls + k, uri |-> calls[k]]]
        last(u) == CHOOSE k \in 1..Len(calls) :
                      calls[k] = u /\ \A j \in (k + 1)..Len(calls) : calls[j] # u
    IN /\ objectUrls + Len(calls) <= MaxUrls
       /\ objectUrls' = objectUrls + Len(calls)
       /\ blobUrls' = [u \in {calls[k] : k \in 1..Len(calls)} |-> made[last(u)]]
       /\ outstanding' = (outstanding \ {blobUrls[u] : u \in DOMAIN blobUrls})
                            \cup {made[k] : k \in 1..Len(calls)}

InitBubble ==
    /\ IngestIdle
    /\ SessionInitial
    /\ validation = [status |-> "none"]
    /\ RestInitial

\* The virtual list mounts the bubble of a message.
MountBubble ==
    /\ bubble = "unmounted"
    /\ bubble' = "mounted"
    /\ \E msg \in BubbleMessages : bubbleMessage' = msg
    /\ \E folder \in BubbleFolders : bubbleFolder' = folder
    /\ loadedImages' = {}
    /\ Rerender(bubbleMessage', bubbleFolder', {})
    /\ UNCHANGED <<ingestVars, validation, sessionVars, encodingVars, readVars,
                 filterVars, pathVars, selectionVars>>

\* A click on a photo that is not loaded, with a folder structure: loadImage.
LoadImage ==
    /\ bubble = "mounted"
    /\ ~bubbleFolder.null
    /\ \E k \in 1..Len(bubbleMessage.photos) :
          /\ bubbleMessage.photos[k] \notin loadedImages
          /\ loadedImages' = loadedImages \cup {bubbleMessage.photos[k]}
    /\ Rerender(bubbleMessage, bubbleFolder, loadedImages')
    /\ UNCHANGED <<bubble, bubbleMessage, bubbleFolder>>
    /\ UNCHANGED <<ingestVars, validation, sessionVars, encodingVars, readVars,
                 filterVars, pathVars, selectionVars>>

\* The parent renders the bubble with another message or another folder
\* structure.
ChangeProps ==
    /\ bubble = "mounted"
    /\ \E msg \in BubbleMessages, folder \in BubbleFolders :
          /\ <<msg, folder>> # <<bubbleMessage, bubbleFolder>>
          /\ bubbleMessage' = msg
          /\ bubbleFolder' = folder
    /\ Rerender(bubbleMessage', bubbleFolder', loadedImages)
    /\ UNCHANGED <<bubble, loadedImages>>
    /\ UNCHANGED <<ingestVars, validation, sessionVars, encodingVars, readVars,
                 filterVars, pathVars, selectionVars>>

\* The bubble unmounts: the cleanup of the effect revokes the URLs of
\* blobUrls.
UnmountBubble ==
    /\ bubble = "mounted"
    /\ bubble' = "gone"
    /\ outstanding' = outstanding \ {blobUrls[u] : u \in DOMAIN blobUrls}
    /\ UNCHANGED <<bubbleMessage, bubbleFolder, loadedImages, blobUrls, objectUrls>>
    /\ UNCHANGED <<ingestVars, validation, sessionVars, encodingVars, readVars,
                 filterVars, pathVars, selectionVars>>

NextBubble ==
    \/ MountBubble
    \/ LoadImage
    \/ ChangeProps
    \/ UnmountBubble

SpecBubble == InitBubble /\ [][NextBubble]_vars

\* The uris of the attachments the bubble shows.
ShownUris ==
    {bubbleMessage.photos[k] : k \in 1..Len(bubbleMessage.photos)}
    \cup {bubbleMessage.videos[k] : k \in 1..Len(bubbleMessage.videos)}
    \cup {bubbleMessage.gifs[k] : k \in 1..Len(bubbleMessage.gifs)}

\* C20: the URLs made and not revoked are URLs of attachments the user
\* loaded and the bubble shows, and there is none once the bubble is
\* unmounted.
C20_PreviewsReleased ==
    /\ \A url \in outstanding : url.uri \in loadedImages /\ url.uri \in ShownUris
    /\ bubble = "gone" => outstanding = {}

-----------------------------------------------------------------------------
(* SearchBar and DateFilters over a message collection *)

\* The length of the collections built message by message.
MaxListed == 2

\* The messages of the explored collections, by timestamp: the last
\* millisecond of the first day from sender "Cat" without content; then from
\* sender "Bo": "cat sat" at the local midnight of the second day, "sat" a
\* millisecond before its midnight UTC, "CAT" 24 hours less a millisecond
\* after its local midnight, "concatenate" in its last millisecond, and "c.t"
\* at the local midnight of the third day.
FilterMessages ==
    {[sender_name |-> <<67, 97, 116>>,
      timestamp_ms |-> LocalMidnight(2) - 1],
     [sender_name |-> <<66, 111>>, content |-> <<99, 97, 116, 32, 115, 97, 116>>,
      timestamp_ms |-> LocalMidnight(2)],
     [sender_name |-> <<66, 111>>, content |-> <<115, 97, 116>>,
      timestamp_ms |-> UtcMidnight(2) - 1],
     [sender_name |-> <<66, 111>>, content |-> <<67, 65, 84>>,
      timestamp_ms |-> LocalMidnight(2) + DayMs - 1],
     [sender_name |-> <<66, 111>>,
      content |-> <<99, 111, 110, 99, 97, 116, 101, 110, 97, 116, 101>>,
      timestamp_ms |-> LocalMidnight(3) - 1],
     [sender_name |-> <<66, 111>>, content |-> <<99, 46, 116>>,
      timestamp_ms |-> LocalMidnight(3)]}

\* The message m as the element at index k of a loaded collection: with the
\* id of its index.
Listed(m, k) == [id |-> <<DemoName, k>>] @@ m

\* A collection of more messages than SearchBar lists, a minute apart from
\* the local midnight of the second day on: "cat sat" from "Bo", every
\* seventh one "sat".
LongArchive ==
    [k \in 1..(TopResults + 10) |->
        [id |-> <<DemoName, k - 1>>, sender_name |-> <<66, 111>>,
         content |-> IF k % 7 = 0 THEN <<115, 97, 116>>
                     ELSE <<99, 97, 116, 32, 115, 97, 116>>,
         timestamp_ms |-> LocalMidnight(2) + 60000 * k]]

\* The route hands SearchBar and DateFilters a new messages array: the
\* memos are recomputed and the effect of DateFilters sets filteredMessages.
MessagesLoaded(ms) ==
    /\ messages' = ms
    /\ filteredMessages' = FilteredByDate(ms)
    /\ UNCHANGED filterVars
    /\ UNCHANGED <<chatFolder, isProcessing, mainUser, participants,
                   folderStructure, load, toasts, error, ldc>>
    /\ UNCHANGED <<selectedMessageId, timers>>
    /\ RunScrollEffect
    /\ UNCHANGED <<ingestVars, validation, encodingVars, readVars, bubbleVars,
                   pathVars>>

\* The collection loaded holds one more message; the collection is sorted by
\* timestamp, as processMessageFiles and loadDemoChat return it.
ListMessage ==
    /\ Len(messages) < MaxListed
    /\ \E m \in FilterMessages :
          /\ messages # <<>> =>
                messages[Len(messages)].timestamp_ms <= m.timestamp_ms
          /\ MessagesLoaded(Append(messages, Listed(m, Len(messages))))

\* The long collection is loaded.
LoadLongArchive ==
    /\ messages = <<>>
    /\ MessagesLoaded(LongArchive)

InitFilter == Init

NextFilter ==
    \/ ListMessage
    \/ LoadLongArchive
    \/ \E q \in Queries : SetSearchTerm(q)
    \/ FocusSearch
    \/ HandleClearSearch
    \/ \E d \in {0} \cup Days : SetStartDate(d)
    \/ \E d \in {0} \cup Days : SetEndDate(d)
    \/ SearchBarHandleClearDates
    \/ \E r \in Ranges : SetRange(r)
    \/ DateFiltersHandleClearDates

SpecFilter == InitFilter /\ [][NextFilter]_vars

-----------------------------------------------------------------------------
(* Selecting a search result: handleMessageSelect and its timeouts *)

\* The delay of the timeout of handleMessageSelect, 3000 ms, in seconds.
ClearDelay == 3

\* The timeouts pending at once in the explored behaviours.
MaxTimers == 2

\* handleMessageSelect(messageId): the id is selected and a timeout of
\* ClearDelay is set; no timeout set before is cleared.  timers holds the
\* seconds left of the pending timeouts, in the order they were set.
HandleMessageSelect(messageId) ==
    /\ selectedMessageId' = Some(messageId)
    /\ timers' = Append(timers, ClearDelay)

\* handleResultClick of the k-th button of the dropdown of SearchBar, which
\* is rendered while showResults holds and lists searchResults, computed
\* from the messages of the route.  The effect of VirtualMessageList runs
\* when selectedMessageId changed in the render that follows.
HandleResultClick(k) ==
    /\ showResults
    /\ k \in 1..Len(SearchResults(messages))
    /\ Len(timers) < MaxTimers
    /\ HandleMessageSelect(SearchResults(messages)[k].id)
    /\ showResults' = FALSE
    /\ UNCHANGED <<searchTerm, startDate, endDate, range>>
    /\ UNCHANGED sessionVars
    /\ IF selectedMessageId' # selectedMessageId
       THEN RunScrollEffect
       ELSE UNCHANGED centred
    /\ UNCHANGED <<ingestVars, validation, encodingVars, readVars, bubbleVars,
                   pathVars>>

\* A second passes while no pending timeout is due.
Tick ==
    /\ timers # <<>>
    /\ \A k \in 1..Len(timers) : timers[k] > 0
    /\ timers' = [k \in 1..Len(timers) |-> timers[k] - 1]
    /\ UNCHANGED <<selectedMessageId, centred>>
    /\ UNCHANGED <<ingestVars, validation, sessionVars, encodingVars,
                   readVars, bubbleVars, filterVars, pathVars>>

\* The callback of the timeout set first runs when it is due:
\* setSelectedMessageId(null).  The effect of VirtualMessageList returns at
\* once for a null id.
TimerFires ==
    /\ timers # <<>>
    /\ Head(timers) = 0
    /\ timers' = Tail(timers)
    /\ selectedMessageId' = Null
    /\ UNCHANGED centred
    /\ UNCHANGED <<ingestVars, validation, sessionVars, encodingVars,
                   readVars, bubbleVars, filterVars, pathVars>>

\* The user scrolls the list: the message scrolled to is centred no more.
UserScrolls ==
    /\ ~centred.null
    /\ centred' = Null
    /\ UNCHANGED <<selectedMessageId, timers>>
    /\ UNCHANGED <<ingestVars, validation, sessionVars, encodingVars,
                   readVars, bubbleVars, filterVars, pathVars>>

InitSelect == Init

NextSelect ==
    \/ ListMessage
    \/ \E q \in SessionQueries : SetSearchTerm(q)
    \/ FocusSearch
    \/ \E r \in SessionRanges : SetRange(r)
    \/ DateFiltersHandleClearDates
    \/ \E k \in 1..MaxListed : HandleResultClick(k)
    \/ Tick
    \/ TimerFires
    \/ UserScrolls

SpecSelect == InitSelect /\ [][NextSelect]_vars

\* Two code units are the same letter up to case.
SameLetter(a, b) ==
    \/ a = b
    \/ a \in UpperCase /\ b = a + 32
    \/ b \in UpperCase /\ a = b + 32

\* The text t contains the query q, case ignored.
ContainsIgnoringCase(t, q) ==
    \E o \in 0..(Len(t) - Len(q)) :
        \A k \in 1..Len(q) : SameLetter(t[o + k], q[k])

\* The filteredMessages of SearchBar in the current state.
SearchOutput == SearchFiltered(messages, searchTerm, startDate, endDate)

InSeq(x, s) == \E k \in 1..Len(s) : s[k] = x

\* The message passes the date inputs of SearchBar.
PassesDateInputs(m) == SearchFiltered(<<m>>, <<>>, startDate, endDate) # <<>>

\* C11: with a non-blank query, a message that passes the date inputs of
\* SearchBar is in its filteredMessages if and only if its content or its
\* sender name contains the query, case ignored; a message without content
\* is there only if its sender name contains the query.
C11_SubstringSearch ==
    Trim(searchTerm) # <<>> =>
        \A k \in 1..Len(messages) :
            LET m == messages[k] IN
            /\ PassesDateInputs(m) =>
                  (InSeq(m, SearchOutput) <=>
                      \/ HasContent(m) /\ ContainsIgnoringCase(m.content, searchTerm)
                      \/ ContainsIgnoringCase(m.sender_name, searchTerm))
            /\ (~HasContent(m) /\ InSeq(m, SearchOutput)) =>
                  ContainsIgnoringCase(m.sender_name, searchTerm)

\* The query "cat" with no date set keeps a message without content from
\* sender "Cat" and drops a message with content.
C11_Witness ==
    /\ searchTerm = <<99, 97, 116>>
    /\ startDate = 0
    /\ endDate = 0
    /\ \E k \in 1..Len(messages) :
          /\ ~HasContent(messages[k])
          /\ messages[k].sender_name = <<67, 97, 116>>
          /\ InSeq(messages[k], SearchOutput)
    /\ \E k \in 1..Len(messages) :
          /\ HasContent(messages[k])
          /\ ~InSeq(messages[k], SearchOutput)

\* A code unit \w matches: a digit, a letter A-Z or a-z, or "_".
IsWordUnit(c) == c \in (48..57) \cup (65..90) \cup (97..122) \cup {95}

\* \b matches between the units p and p + 1 of t: exactly one of them is a
\* word unit, the ends of t counting as none.
WordBoundary(t, p) ==
    (p >= 1 /\ IsWordUnit(t[p])) # (p + 1 <= Len(t) /\ IsWordUnit(t[p + 1]))

\* The query q, its metacharacters taken literally, occurs in t between two
\* word boundaries, case ignored.
WholeWordOccurs(t, q) ==
    \E o \in 0..(Len(t) - Len(q)) :
        /\ \A k \in 1..Len(q) : SameLetter(t[o + k], q[k])
        /\ WordBoundary(t, o)
        /\ WordBoundary(t, o + Len(q))

\* The filteredMessages of SearchBar for a position of the whole-word toggle:
\* SearchBar keeps no such state and its filter has one mode, so the output
\* is the same for both.
SearchOutputFor(wholeWord) == SearchOutput

\* C12: with a non-blank query, a message that passes the date inputs is in
\* the search output, with the whole-word toggle on, if and only if the query
\* occurs in its content or sender name between word boundaries, and with
\* the toggle off if and only if the query occurs there at all ("cat" in
\* "cat sat" either way, in "concatenate" only with the toggle off).
C12_WholeWordSearch ==
    Trim(searchTerm) # <<>> =>
        \A wholeWord \in BOOLEAN : \A k \in 1..Len(messages) :
            LET m == messages[k] IN
            PassesDateInputs(m) =>
                (InSeq(m, SearchOutputFor(wholeWord)) <=>
                    IF wholeWord
                    THEN \/ HasContent(m) /\ WholeWordOccurs(m.content, searchTerm)
                         \/ WholeWordOccurs(m.sender_name, searchTerm)
                    ELSE \/ HasContent(m) /\ ContainsIgnoringCase(m.content, searchTerm)
                         \/ ContainsIgnoringCase(m.sender_name, searchTerm))

\* The message matches the current query, case ignored, and passes the date
\* inputs of SearchBar.
Matches(m) ==
    /\ \/ HasContent(m) /\ ContainsIgnoringCase(m.content, searchTerm)
       \/ ContainsIgnoringCase(m.sender_name, searchTerm)
    /\ PassesDateInputs(m)

\* The first n matching messages of ms, in the order of ms.
RECURSIVE FirstMatches(_, _)
FirstMatches(ms, n) ==
    IF n = 0 \/ ms = <<>> THEN <<>>
    ELSE IF Matches(Head(ms))
         THEN <<Head(ms)>> \o FirstMatches(Tail(ms), n - 1)
         ELSE FirstMatches(Tail(ms), n)

\* C13: the search results never hold more than 50 messages; they are the
\* first at most 50 matching messages in the order of the collection, and
\* none when the query is blank.
C13_TopResults ==
    /\ Len(SearchResults(messages)) <= TopResults
    /\ SearchResults(messages) =
          IF Trim(searchTerm) = <<>> THEN <<>>
          ELSE FirstMatches(messages, TopResults)

\* More than 50 messages match, one before the 50th match does not, and 50
\* results are listed.
C13_Witness ==
    /\ Len(SearchOutput) > TopResults
    /\ Len(SearchResults(messages)) = TopResults
    /\ \E k \in 1..TopResults : ~Matches(messages[k])

\* The first and the last millisecond of the local day d: 00:00:00.000, and
\* 23:59:59.999, the millisecond before the next local midnight.
StartOfDay(d) == LocalMidnight(d)
EndOfDay(d) == LocalMidnight(d + 1) - 1

\* C14: DateFilters keeps a message if and only if its timestamp lies between
\* the start of the first day picked and the end of the last day picked,
\* both included, a day not picked leaving its side open; with one day D
\* picked as first and last it keeps the messages from D 00:00:00.000 to
\* D 23:59:59.999.
C14_DateRangeInclusive ==
    \A k \in 1..Len(messages) :
        LET m == messages[k] IN
        InSeq(m, FilteredByDate(messages)) <=>
            \/ range.null
            \/ /\ HasTimestamp(m)
               /\ range.value.from # 0 => m.timestamp_ms >= StartOfDay(range.value.from)
               /\ range.value.to # 0 => m.timestamp_ms <= EndOfDay(range.value.to)

\* The messages of ms that match the current query of SearchBar (all of them
\* while it is blank) and lie within the days picked in DateFilters, in the
\* order of ms.
FilteredByBoth(ms) ==
    SelectSeq(ms, LAMBDA m :
        /\ \/ Trim(searchTerm) = <<>>
           \/ HasContent(m) /\ ContainsIgnoringCase(m.content, searchTerm)
           \/ ContainsIgnoringCase(m.sender_name, searchTerm)
        /\ \/ range.null
           \/ /\ HasTimestamp(m)
              /\ range.value.from # 0 =>
                    m.timestamp_ms >= StartOfDay(range.value.from)
              /\ range.value.to # 0 =>
                    m.timestamp_ms <= EndOfDay(range.value.to))

\* C15: whatever queries were typed, ranges picked and archives loaded, the
\* messages handed to VirtualMessageList are all the messages loaded that
\* match the current query and lie within the current date range, in their
\* order.
C15_RendererReceivesBothFilters ==
    filteredMessages = FilteredByBoth(messages)

-----------------------------------------------------------------------------
(* cleanAttachmentPath alone *)

\* The length of the uris written unit by unit.
MaxUri == 7

\* uri.split("/"): the segments between the "/" (code unit 47), the empty
\* ones included.
RECURSIVE Split(_)
Split(t) ==
    IF \A k \in 1..Len(t) : t[k] # 47 THEN <<t>>
    ELSE LET p == CHOOSE k \in 1..Len(t) :
                      t[k] = 47 /\ \A j \in 1..(k - 1) : t[j] # 47
         IN <<SubSeq(t, 1, p - 1)>> \o Split(SubSeq(t, p + 1, Len(t)))

\* parts.join("/").
RECURSIVE Join(_)
Join(parts) ==
    IF parts = <<>> THEN <<>>
    ELSE IF Len(parts) = 1 THEN parts[1]
    ELSE parts[1] \o <<47>> \o Join(Tail(parts))

\* cleanAttachmentPath with slice(2).
CleanAttachmentPathDropsTwo(input) ==
    LET parts == Split(input)
    IN Join(SubSeq(parts, 3, Len(parts)))

\* cleanAttachmentPath(uri): parts.slice(3).join("/").
CleanAttachmentPath(input) ==
    LET parts == Split(input)
    IN Join(SubSeq(parts, 4, Len(parts)))

\* "your_facebook_activity/messages/inbox/chat_123/photos/img.jpg"
ExampleUri ==
    <<121, 111, 117, 114, 95, 102, 97, 99, 101, 98, 111, 111, 107, 95, 97,
      99, 116, 105, 118, 105, 116, 121, 47, 109, 101, 115, 115, 97, 103,
      101, 115, 47, 105, 110, 98, 111, 120, 47, 99, 104, 97, 116, 95, 49,
      50, 51, 47, 112, 104, 111, 116, 111, 115, 47, 105, 109, 103, 46, 106,
      112, 103>>

\* "chat_123/photos/img.jpg"
ExampleClean ==
    <<99, 104, 97, 116, 95, 49, 50, 51, 47, 112, 104, 111, 116, 111, 115,
      47, 105, 109, 103, 46, 106, 112, 103>>

InitPath == Init

\* The uri is one unit longer: "/", "a" or "b".
WriteUriUnit ==
    /\ cleaned.null
    /\ Len(attachmentUri) < MaxUri
    /\ \E c \in {47, 97, 98} : attachmentUri' = Append(attachmentUri, c)
    /\ UNCHANGED cleaned
    /\ UNCHANGED <<ingestVars, validation, sessionVars, encodingVars,
                   readVars, bubbleVars, filterVars, selectionVars>>

\* The uri is the one of the example.
WriteExampleUri ==
    /\ cleaned.null
    /\ attachmentUri = <<>>
    /\ attachmentUri' = ExampleUri
    /\ UNCHANGED cleaned
    /\ UNCHANGED <<ingestVars, validation, sessionVars, encodingVars,
                   readVars, bubbleVars, filterVars, selectionVars>>

\* The call cleanAttachmentPath(uri).
CallCleanAttachmentPath ==
    /\ cleaned.null
    /\ cleaned' = Some(CleanAttachmentPath(attachmentUri))
    /\ UNCHANGED attachmentUri
    /\ UNCHANGED <<ingestVars, validation, sessionVars, encodingVars,
                   readVars, bubbleVars, filterVars, selectionVars>>

NextPath ==
    \/ WriteUriUnit
    \/ WriteExampleUri
    \/ CallCleanAttachmentPath

SpecPath == InitPath /\ [][NextPath]_vars

\* The positions of the "/" in t.
Slashes(t) == {k \in 1..Len(t) : t[k] = 47}

\* What follows the third "/" of t; nothing when t has fewer than three.
AfterThirdSlash(t) ==
    IF Cardinality(Slashes(t)) < 3 THEN <<>>
    ELSE LET third == CHOOSE k \in Slashes(t) :
                          Cardinality({j \in Slashes(t) : j < k}) = 2
         IN SubSeq(t, third + 1, Len(t))

\* C23: cleanAttachmentPath returns the segments from index 3 onward joined
\* by "/", that is what follows the third "/" of the uri, and "" for a uri
\* of three or fewer segments; for the uri of the example it returns
\* "chat_123/photos/img.jpg".
C23_CleanAttachmentPath ==
    ~cleaned.null =>
        /\ cleaned.value = AfterThirdSlash(attachmentUri)
        /\ Len(Split(attachmentUri)) <= 3 => cleaned.value = <<>>
        /\ attachmentUri = ExampleUri => cleaned.value = ExampleClean

\* The call was made on the uri of the example.
C23_Witness ==
    /\ ~cleaned.null
    /\ attachmentUri = ExampleUri
    /\ cleaned.value # <<>>

-----------------------------------------------------------------------------
(* The loop of processMessageFiles: order and progress *)

\* C24: the message files are read in ascending order of their numeric
\* suffix, one at a time (while file i + 1 is read, allMessages holds the
\* records of the files before it and of no other), and the records of a
\* file are enriched in the order of its array.
C24_ReadInSuffixOrder ==
    /\ \A a, b \in 1..Len(sortedFiles) :
          a < b => sortedFiles[a].name.suf <= sortedFiles[b].name.suf
    /\ pmf = "reading" =>
          /\ i < Len(sortedFiles)
          /\ \A k \in 1..Len(allMessages) :
                \E f \in 1..i : allMessages[k].id[1] = sortedFiles[f].name
          /\ \A a, b \in 1..Len(allMessages) :
                (a < b /\ allMessages[a].id[1] = allMessages[b].id[1]
                 /\ Cardinality({k \in 1..Len(files) :
                                   files[k].name = allMessages[a].id[1]}) = 1)
                => allMessages[a].id[2] < allMessages[b].id[2]

\* C25: the progress reported is the number of files processed so far, out
\* of the number of message files: while file i + 1 is read the last report
\* says i files (none before the first file is done), and once a report was
\* made, 1 <= current <= total = N.
C25_ProgressAfterEachFile ==
    (pmf \in {"reading", "resolved"} /\ Len(sortedFiles) > 0) =>
        /\ progress.current = i
        /\ progress.current >= 1 =>
              /\ progress.current <= progress.total
              /\ progress.total = Len(sortedFiles)

-----------------------------------------------------------------------------
(* The session across loads *)

\* The message comes from the load started last: from a file of the folder
\* selected, or from the demo chat.
FromLatestLoad(m) ==
    IF load = "demo" THEN m.id[1] = DemoName
    ELSE load = "folder" /\ \E k \in 1..Len(files) : files[k].name = m.id[1]

\* C26: whatever loads were started and however they ended, the session
\* state is that of the load started last: the messages and filtered
\* messages come from it, the folder structure is the one of its folder
\* (none for the demo chat), participants and main user are senders of its
\* messages, and the progress counts its files.
C26_ReplacedWholesale ==
    /\ \A k \in 1..Len(messages) : FromLatestLoad(messages[k])
    /\ \A k \in 1..Len(filteredMessages) : FromLatestLoad(filteredMessages[k])
    /\ load = "none" => folderStructure = Null
    /\ load = "demo" => folderStructure = Null
    /\ load = "folder" => folderStructure = Some(BuildFolderStructure(files))
    /\ \A k \in 1..Len(participants) :
          \E n \in 1..Len(messages) : messages[n].sender_name = participants[k]
    /\ \/ mainUser.null
       \/ \E n \in 1..Len(messages) : messages[n].sender_name = mainUser.value
    /\ IF load = "folder" THEN progress.total \in {0, Len(sortedFiles)}
       ELSE progress = [current |-> 0, total |-> 0]

\* An ingestion is in flight: processMessageFiles awaits a read, or
\* loadDemoChat awaits its fetch or the body.
FolderIngestionInFlight == pmf = "reading"
DemoIngestionInFlight == ldc.state \in {"fetching", "parsing"}

\* C27: at most one ingestion is in flight, it is the one of the load
\* started last, and isProcessing is true exactly while it is (no earlier
\* ingestion is left to write into the session or to set isProcessing to
\* false after a later load started); the messages of a finished load are
\* those of the load started last.
C27_NoStaleWrite ==
    /\ ~(FolderIngestionInFlight /\ DemoIngestionInFlight)
    /\ FolderIngestionInFlight => load = "folder"
    /\ DemoIngestionInFlight => load = "demo"
    /\ isProcessing <=> (FolderIngestionInFlight \/ DemoIngestionInFlight)
    /\ (~isProcessing /\ Len(messages) > 0) =>
          \A k \in 1..Len(messages) : FromLatestLoad(messages[k])

\* A demo load is in flight after a folder load that finished with messages.
C27_Witness ==
    /\ isProcessing
    /\ load = "demo"
    /\ DemoIngestionInFlight
    /\ pmf = "resolved"
    /\ Len(result) > 0

\* C29: the participants are exactly the sorted distinct sender names of the
\* messages now in the session, and the main user is null or one of the
\* participants.
C29_ParticipantsOfMessages ==
    /\ participants = ExtractParticipants(messages)
    /\ \/ mainUser.null
       \/ \E k \in 1..Len(participants) : participants[k] = mainUser.value

-----------------------------------------------------------------------------
(* Selection: the scroll to a clicked result and the life of a selection *)

\* The timeout set by the selection now in force: the one set last.
OwnTimer == timers[Len(timers)]

\* C22: a click on any search result makes the list scroll so that the
\* clicked message is centred, whatever date range DateFilters holds.
C22_ClickScrollsToResult ==
    [][(\E k \in 1..MaxListed : HandleResultClick(k))
          => centred' = selectedMessageId']_vars

\* C28: a selection is cleared only when ClearDelay has passed since it was
\* made, by its own timeout: never by the timeout of an earlier selection
\* while its own has time left.
C28_SelectionLastsClearDelay ==
    [][(~selectedMessageId.null /\ selectedMessageId'.null)
          => OwnTimer = 0]_vars

-----------------------------------------------------------------------------
(* Termination of a load *)

\* C30: when every read and the demo fetch settle, a load that started
\* finishes: isProcessing, true from the start of a folder or demo load, is
\* false again later, whether the load succeeds or fails.
C30_LoadFinishes == isProcessing ~> ~isProcessing

\* C30 happens: a demo load failed and finished, and the folder load started
\* after it read its files and finished too.
C30_Witness ==
    /\ ~isProcessing
    /\ load = "folder"
    /\ pmf = "resolved"
    /\ Len(sortedFiles) > 0
    /\ Len(toasts) = 2
    /\ toasts[1].kind = "error"
    /\ toasts[2].kind = "success"

====
